---- MODULE Spec2Model ----
(***************************************************************************)
(* Block-storage driver adapters of axbsp: the SD-card queue of the        *)
(* Phytium Pi board (sdcard.rs) and the eMMC queue and clock bridge of the *)
(* ROC-RK3568-PC board (sdhci.rs, clk.rs).                                 *)
(*                                                                         *)
(* Machine words are wider than the integers of the model checker, so a    *)
(* usize/u64 is a little-endian tuple of four 16-bit limbs and a u32 a     *)
(* tuple of two; `as u32` keeps the two low limbs.                         *)
(***************************************************************************)
EXTENDS Integers, Sequences, FiniteSets, TLC

(***************************************************************************)
(* Bounds of the model.                                                    *)
(***************************************************************************)
MaxQueues == 2
MaxMapCalls == 2

(***************************************************************************)
(* Program constants.                                                      *)
(***************************************************************************)
BLOCK_SIZE == 512
OFFSET_SD == 67108864
OFFSET_EMMC == 499712
SD_SECTOR == 512
MHZ == 1000000
KHZ == 1000
EMMC_CLK_ID == 124
U32_SIZE == 4

(***************************************************************************)
(* State.                                                                  *)
(***************************************************************************)
VARIABLES
    board,            \* "sd" (Phytium Pi) or "emmc" (ROC-RK3568-PC)
    queues,           \* the queue adapters create_queue has handed out
    lock,             \* holder of the Mutex around the device handle, 0 when free
    pc,               \* per queue: "idle", "lock", "vendor", "done"
    call,             \* per queue: the call in progress or last returned
    buf,              \* per queue: contents of the caller's buffer
    ret,              \* per queue: what the last call returned
    vlog,             \* per queue: the vendor invocations of its current call
    map_log,          \* the error mapper's applications, oldest first
    cclk_emmc_sel,    \* the CRU's eMMC clock-source selector field
    clk_call,         \* the clock driver's last call and its outcome
    probe,            \* the probe of the storage device and of the clock controller
    hw                \* what the card reports: its block size and block count

vars == <<board, queues, lock, pc, call, buf, ret, vlog,
          map_log, cclk_emmc_sel, clk_call, probe, hw>>

(***************************************************************************)
(* Fixed-width unsigned arithmetic on 16-bit limbs.                        *)
(***************************************************************************)
Radix == 2^16

\* A natural below 2^31 as a usize / u64.
W(n) == <<n % Radix, (n \div Radix) % Radix, 0, 0>>

\* A natural below 2^31 as a u32.
U32(n) == <<n % Radix, (n \div Radix) % Radix>>

MaxWord == <<Radix - 1, Radix - 1, Radix - 1, Radix - 1>>

\* a + b on 64 bits: the wrapped sum and the carry out of bit 63.
AddWord(a, b) ==
    LET s1 == a[1] + b[1]
        s2 == a[2] + b[2] + (s1 \div Radix)
        s3 == a[3] + b[3] + (s2 \div Radix)
        s4 == a[4] + b[4] + (s3 \div Radix)
    IN  [val   |-> <<s1 % Radix, s2 % Radix, s3 % Radix, s4 % Radix>>,
         carry |-> s4 \div Radix]

\* a - b on 64 bits, wrapped.
SubWord(a, b) ==
    LET d1 == a[1] - b[1]
        b1 == IF d1 < 0 THEN 1 ELSE 0
        d2 == a[2] - b[2] - b1
        b2 == IF d2 < 0 THEN 1 ELSE 0
        d3 == a[3] - b[3] - b2
        b3 == IF d3 < 0 THEN 1 ELSE 0
        d4 == a[4] - b[4] - b3
    IN  <<d1 % Radix, d2 % Radix, d3 % Radix, d4 % Radix>>

\* `x as u32`: the low 32 bits.
as_u32(w) == <<w[1], w[2]>>

\* A u32 widened back to 64 bits.
widen(u) == <<u[1], u[2], 0, 0>>

(***************************************************************************)
(* Contents of byte buffers, run-length encoded: a sequence of runs        *)
(* [n |-> bytes, v |-> what the bytes hold].  Bytes hold either the        *)
(* caller's data or the data of one physical block of the device.          *)
(***************************************************************************)
CallerData == [src |-> "caller", blk |-> U32(0)]

DeviceData(blk) == [src |-> "device", blk |-> blk]

Fill(n, v) == IF n = 0 THEN <<>> ELSE <<[n |-> n, v |-> v]>>

\* The first k bytes of b.
RECURSIVE Take(_, _)
Take(b, k) ==
    IF k = 0 \/ b = <<>> THEN <<>>
    ELSE IF Head(b).n <= k THEN <<Head(b)>> \o Take(Tail(b), k - Head(b).n)
    ELSE <<[n |-> k, v |-> Head(b).v]>>

\* b without its first k bytes.
RECURSIVE Drop(_, _)
Drop(b, k) ==
    IF k = 0 \/ b = <<>> THEN b
    ELSE IF Head(b).n <= k THEN Drop(Tail(b), k - Head(b).n)
    ELSE <<[n |-> Head(b).n - k, v |-> Head(b).v]>> \o Tail(b)

\* Adjacent runs of the same data joined: equal contents, equal encodings.
RECURSIVE Norm(_)
Norm(b) ==
    IF Len(b) < 2 THEN b
    ELSE IF b[1].v = b[2].v
         THEN Norm(<<[n |-> b[1].n + b[2].n, v |-> b[1].v]>> \o Tail(Tail(b)))
         ELSE <<b[1]>> \o Norm(Tail(b))

\* dst[..k].copy_from_slice(&src[..k])
CopyPrefix(dst, src, k) == Norm(Take(src, k) \o Drop(dst, k))

Min(a, b) == IF a < b THEN a ELSE b

(***************************************************************************)
(* slice::align_to::<u32>() of a byte slice at address addr of len bytes:  *)
(* the bytes before the first aligned address, the aligned words, the      *)
(* bytes left over.                                                        *)
(***************************************************************************)
align_to(addr, len) ==
    LET offset == (U32_SIZE - (addr % U32_SIZE)) % U32_SIZE
    IN  IF offset > len
        THEN [prefix |-> len, middle |-> 0, suffix |-> 0]
        ELSE [prefix |-> offset,
              middle |-> (len - offset) \div U32_SIZE,
              suffix |-> (len - offset) % U32_SIZE]

(***************************************************************************)
(* Errors.  A vendor code is [name, arg]; arg is the payload of a code     *)
(* that carries one (SdError::CardError) and 0 otherwise.                  *)
(***************************************************************************)
Code(name) == [name |-> name, arg |-> 0]

NoCode == Code("")

NoErr == [type |-> "none", expected |-> 0, actual |-> 0, code |-> NoCode]

InvalidSize(expected, actual) ==
    [type |-> "InvalidSize", expected |-> expected, actual |-> actual, code |-> NoCode]

InvalidAlignment ==
    [type |-> "InvalidAlignment", expected |-> 0, actual |-> 0, code |-> NoCode]

MCIErrorWrapper(err) ==
    [type |-> "MCIErrorWrapper", expected |-> 0, actual |-> 0, code |-> err]

SdErrorWrapper_discriminant(err) ==
    [type |-> "SdErrorWrapper", expected |-> 0, actual |-> 0, code |-> Code(err.name)]

SdErrorWrapper(err) ==
    [type |-> "SdErrorWrapper", expected |-> 0, actual |-> 0, code |-> err]

\* Results of the queue interface: Ok(val) and the three BlkError kinds.
Ok(val) == [kind |-> "Ok", val |-> val, err |-> NoErr]

Retry == [kind |-> "Retry", val |-> 0, err |-> NoErr]

NotSupported == [kind |-> "NotSupported", val |-> 0, err |-> NoErr]

Other(e) == [kind |-> "Other", val |-> 0, err |-> e]

\* No call has returned yet.
NoResult == [kind |-> "None", val |-> 0, err |-> NoErr]

(***************************************************************************)
(* Buffer validation of the SD-card queue; the eMMC queue inlines the same *)
(* two checks in both arms of submit_request.                              *)
(***************************************************************************)
validate_buffer_unordered(addr, len) ==
    LET parts == align_to(addr, len)
    IN  IF parts.prefix # 0 \/ parts.suffix # 0
        THEN Other(InvalidAlignment)
        ELSE IF len < BLOCK_SIZE
        THEN Other(InvalidSize(BLOCK_SIZE, len))
        ELSE Ok(0)

validate_buffer_prefix_only(addr, len) ==
    LET parts == align_to(addr, len)
    IN  IF len < BLOCK_SIZE
        THEN Other(InvalidSize(BLOCK_SIZE, len))
        ELSE IF parts.prefix # 0
        THEN Other(InvalidAlignment)
        ELSE Ok(0)

validate_buffer(addr, len) ==
    LET parts == align_to(addr, len)
    IN  IF len < BLOCK_SIZE
        THEN Other(InvalidSize(BLOCK_SIZE, len))
        ELSE IF parts.prefix # 0 \/ parts.suffix # 0
        THEN Other(InvalidAlignment)
        ELSE Ok(0)

(***************************************************************************)
(* The vendor error codes the sources name, and one stand-in per library   *)
(* for the codes they leave to the default arm.                            *)
(***************************************************************************)
MCIHostErrors ==
    { Code(n) : n \in { "Timeout", "OutOfRange", "InvalidArgument",
                        "CardDetectFailed", "CardInitFailed",
                        "InvalidVoltage", "SwitchVoltageFail",
                        "SwitchVoltage18VFail33VSuccess",
                        "TransferFailed", "StopTransmissionFailed",
                        "WaitWriteCompleteFailed", "Unlisted" } }

SdErrors ==
    { Code(n) : n \in { "Timeout", "DataTimeout", "UnsupportedCard",
                        "InvalidResponse", "InvalidResponseType",
                        "TuningFailed", "VoltageSwitchFailed",
                        "BadMessage", "InvalidArgument", "BusWidth",
                        "Unlisted" } }
    \cup { [name |-> "CardError", arg |-> a] : a \in {1, 2} }

Boards == {"sd", "emmc"}

VendorErrors(b) == IF b = "sd" THEN MCIHostErrors ELSE SdErrors

(***************************************************************************)
(* The error mappers.                                                      *)
(***************************************************************************)
map_mci_error_to_blk_error(err) ==
    CASE err.name = "Timeout" -> Retry
      [] err.name \in {"OutOfRange", "InvalidArgument"} ->
             Other(MCIErrorWrapper(err))
      [] err.name \in {"CardDetectFailed", "CardInitFailed"} -> NotSupported
      [] err.name \in {"InvalidVoltage", "SwitchVoltageFail",
                       "SwitchVoltage18VFail33VSuccess"} -> NotSupported
      [] err.name \in {"TransferFailed", "StopTransmissionFailed",
                       "WaitWriteCompleteFailed"} -> Retry
      [] OTHER -> Other(MCIErrorWrapper(err))

map_sd_error_retry_once(err) ==
    CASE err.name \in {"Timeout", "DataTimeout"} ->
             IF \E i \in DOMAIN map_log : map_log[i].err = err
             THEN Other(SdErrorWrapper(err)) ELSE Retry
      [] err.name = "UnsupportedCard" -> NotSupported
      [] OTHER -> Other(SdErrorWrapper(err))

map_sd_error_to_blk_error(err) ==
    CASE err.name \in {"Timeout", "DataTimeout"} -> Retry
      [] err.name = "UnsupportedCard" -> NotSupported
      [] OTHER -> Other(SdErrorWrapper(err))

\* The mapper of the board's queue.
map_error(b, err) ==
    IF b = "sd" THEN map_mci_error_to_blk_error(err)
                ELSE map_sd_error_to_blk_error(err)

(***************************************************************************)
(* Offset translation.  The SD-card queue adds OFFSET / 512 blocks, the    *)
(* eMMC queue adds OFFSET blocks; both add in usize.                       *)
(***************************************************************************)
OffsetBlocks(b) ==
    IF b = "sd" THEN W(OFFSET_SD \div SD_SECTOR) ELSE W(OFFSET_EMMC)

\* request.block_id + OFFSET in usize: the wrapped sum [val] and the carry
\* out of the word [carry].
actual_block_id(b, block_id) == AddWord(block_id, OffsetBlocks(b))

\* The start block handed to the vendor: `actual_block_id as u32`.
start_block(b, block_id) == as_u32(actual_block_id(b, block_id).val)

QueueIds == 1..MaxQueues

NoCall == [op |-> "none", block_id |-> W(0), kind |-> "none",
           addr |-> 0, len |-> 0, rid |-> 0]

(***************************************************************************)
(* The environment: what the callers submit and what the card reports.     *)
(* The first queue is driven with the whole request set and sees every     *)
(* vendor outcome; further queues contend for the device with reference    *)
(* requests.                                                               *)
(***************************************************************************)
PageAddr == 2^12

\* Block ids: a small one, the first whose translation needs 33 bits, and
\* the largest a usize holds.
BlockIds(b) == { W(10), SubWord(<<0, 0, 1, 0>>, OffsetBlocks(b)), MaxWord }

Buffers ==
    { [addr |-> PageAddr,     len |-> BLOCK_SIZE],
      [addr |-> PageAddr,     len |-> 2 * BLOCK_SIZE],
      [addr |-> PageAddr,     len |-> BLOCK_SIZE - 4],
      [addr |-> PageAddr,     len |-> BLOCK_SIZE + 2],
      [addr |-> PageAddr + 2, len |-> BLOCK_SIZE + 2],
      [addr |-> PageAddr + 2, len |-> BLOCK_SIZE - 2] }

Request(block_id, kind, b) ==
    [op |-> "submit_request", block_id |-> block_id, kind |-> kind,
     addr |-> b.addr, len |-> b.len, rid |-> 0]

Kinds == {"Read", "Write"}

\* Every buffer at block 10, and every block id with a whole-block buffer
\* and with a short one.
Requests ==
    { Request(W(10), k, b) : k \in Kinds, b \in Buffers }
    \cup { Request(id, k, b) :
             id \in BlockIds(board), k \in Kinds,
             b \in { [addr |-> PageAddr, len |-> BLOCK_SIZE],
                     [addr |-> PageAddr, len |-> BLOCK_SIZE - 4] } }

ReferenceRequests ==
    { Request(W(10), k, [addr |-> PageAddr, len |-> BLOCK_SIZE]) : k \in Kinds }

RequestsOf(q) == IF q = 1 THEN Requests ELSE ReferenceRequests

\* Vendor failures of a transfer: one code per arm of the board's mapper.
TransferErrors(b) ==
    IF b = "sd"
    THEN { Code("Timeout"), Code("OutOfRange"), Code("CardInitFailed"),
           Code("InvalidVoltage"), Code("TransferFailed"), Code("Unlisted") }
    ELSE { Code("Timeout"), Code("UnsupportedCard"), Code("VoltageSwitchFailed") }

ErrorsOf(q) == IF q = 1 THEN TransferErrors(board) ELSE {Code("Timeout")}

QueryOps == {"num_blocks", "block_size", "buff_config"}

QueryOpsOf(q) == IF q = 1 THEN QueryOps ELSE {"block_size"}

PollIds == {0, 7}

\* Block sizes and block counts a card may report.
HwBlockSizes == {BLOCK_SIZE, 2 * BLOCK_SIZE}

HwBlockCounts == {2^20}

\* Lengths, in u32 words, the SD vendor library may leave the staging Vec with.
\* The geometries a card may report.
HwGeometries == [block_size : HwBlockSizes, block_count : HwBlockCounts]

\* The probe record once the board's storage device is probed and registered.
ProbeDone(b) ==
    [pc |-> "returned", ret |-> "Ok", registered |-> TRUE,
     clk_bridge |-> (b = "emmc"),
     init |-> IF b = "emmc" THEN "ok" ELSE "none",
     cru |-> IF b = "emmc" THEN "registered" ELSE "none",
     failure |-> "none"]

StagingWords == {0, BLOCK_SIZE \div U32_SIZE, (2 * BLOCK_SIZE) \div U32_SIZE}

\* Bytes the eMMC vendor library may have stored before it reports a failure.
PartialBytes == {0, BLOCK_SIZE \div 2}

(***************************************************************************)
(* The queue adapters.                                                     *)
(***************************************************************************)
\* A queue whose caller may make its next call.
Callable(q) == q \in queues /\ pc[q] \in {"idle", "done"}

VendorCall(fn, start, data) ==
    [fn |-> fn, start |-> start, count |-> 1, data |-> data, produced |-> 0]

\* Interface::create_queue: one more adapter sharing the driver's handle.
\* The platform hands out the driver of a registered device only.
create_queue ==
    /\ probe.registered
    /\ Cardinality(queues) < MaxQueues
    /\ queues' = queues \cup {Cardinality(queues) + 1}
    /\ UNCHANGED <<board, lock, pc, call, buf, ret, vlog,
                   map_log, cclk_emmc_sel, clk_call, probe, hw>>

\* IQueue::submit_request up to the lock: the offset is added (in usize,
\* wrapping), then the buffer is validated; a validation error returns at
\* once.
submit_request(q, r) ==
    /\ Callable(q)
    /\ call' = [call EXCEPT ![q] = r]
    /\ buf' = [buf EXCEPT ![q] = Fill(r.len, CallerData)]
    /\ vlog' = [vlog EXCEPT ![q] = <<>>]
    /\ IF validate_buffer(r.addr, r.len).kind # "Ok"
       THEN /\ pc' = [pc EXCEPT ![q] = "done"]
            /\ ret' = [ret EXCEPT ![q] = validate_buffer(r.addr, r.len)]
       ELSE /\ pc' = [pc EXCEPT ![q] = "lock"]
            /\ ret' = [ret EXCEPT ![q] = NoResult]
    /\ UNCHANGED <<board, queues, lock,
                   map_log, cclk_emmc_sel, clk_call, probe, hw>>

\* IQueue::num_blocks, block_size and buff_config (which calls block_size)
\* up to the lock.
query(q, op) ==
    /\ Callable(q)
    /\ call' = [call EXCEPT ![q] = [NoCall EXCEPT !.op = op]]
    /\ buf' = [buf EXCEPT ![q] = <<>>]
    /\ vlog' = [vlog EXCEPT ![q] = <<>>]
    /\ ret' = [ret EXCEPT ![q] = NoResult]
    /\ pc' = [pc EXCEPT ![q] = "lock"]
    /\ UNCHANGED <<board, queues, lock,
                   map_log, cclk_emmc_sel, clk_call, probe, hw>>

Invocation_first_block(q) ==
    LET c == call[q]
    IN  CASE c.op = "submit_request" /\ c.kind = "Read" ->
                 VendorCall("read_blocks", start_block(board, c.block_id), <<>>)
          [] c.op = "submit_request" /\ c.kind = "Write" ->
                 VendorCall("write_blocks", start_block(board, c.block_id),
                            Take(buf[q], BLOCK_SIZE))
          [] c.op = "num_blocks" -> VendorCall("block_count", U32(0), <<>>)
          [] OTHER -> VendorCall("block_size", U32(0), <<>>)

\* The vendor invocation a call makes once it holds the device.
Invocation(q) ==
    LET c == call[q]
    IN  CASE c.op = "submit_request" /\ c.kind = "Read" ->
                 VendorCall("read_blocks", start_block(board, c.block_id), <<>>)
          [] c.op = "submit_request" /\ c.kind = "Write" ->
                 VendorCall("write_blocks", start_block(board, c.block_id), buf[q])
          [] c.op = "num_blocks" -> VendorCall("block_count", U32(0), <<>>)
          [] OTHER -> VendorCall("block_size", U32(0), <<>>)

\* Mutex::lock: spins until the lock is free, then the vendor call starts.
acquire_unguarded(q) ==
    /\ pc[q] = "lock"
    /\ lock' = q
    /\ pc' = [pc EXCEPT ![q] = "vendor"]
    /\ vlog' = [vlog EXCEPT ![q] = Append(vlog[q], Invocation(q))]
    /\ UNCHANGED <<board, queues, call, buf, ret,
                   map_log, cclk_emmc_sel, clk_call, probe, hw>>

acquire(q) ==
    /\ pc[q] = "lock"
    /\ lock = 0
    /\ lock' = q
    /\ pc' = [pc EXCEPT ![q] = "vendor"]
    /\ vlog' = [vlog EXCEPT ![q] = Append(vlog[q], Invocation(q))]
    /\ UNCHANGED <<board, queues, call, buf, ret,
                   map_log, cclk_emmc_sel, clk_call, probe, hw>>

InVendor(q, op, kind) ==
    /\ pc[q] = "vendor"
    /\ call[q].op = op
    /\ call[q].kind = kind

\* The vendor invocation of q's call, with what it produced filled in.
Produced(q, n) == [vlog[q] EXCEPT ![Len(vlog[q])].produced = n]

read_into_whole_block(q, produced) ==
    LET data == Fill(produced, DeviceData(start_block(board, call[q].block_id)))
    IN  CopyPrefix(buf[q], data, BLOCK_SIZE)

\* What a read leaves in the caller's buffer.  The SD queue reads into a
\* staging Vec<u32> and copies min(staging, buffer) words out of it on
\* success only; the eMMC queue hands the caller's buffer to the vendor,
\* which stores into it directly.
read_into(q, produced) ==
    LET data == Fill(produced, DeviceData(start_block(board, call[q].block_id)))
        words == align_to(call[q].addr, call[q].len).middle
        copy_len == Min(produced \div U32_SIZE, words)
    IN  IF board = "sd"
        THEN CopyPrefix(buf[q], data, copy_len * U32_SIZE)
        ELSE CopyPrefix(buf[q], data, Min(produced, call[q].len))

\* read_blocks succeeds: the guard is dropped, the data reaches the buffer.
read_ok(q, produced) ==
    /\ InVendor(q, "submit_request", "Read")
    /\ lock' = 0
    /\ pc' = [pc EXCEPT ![q] = "done"]
    /\ vlog' = [vlog EXCEPT ![q] = Produced(q, produced)]
    /\ buf' = [buf EXCEPT ![q] = read_into(q, produced)]
    /\ ret' = [ret EXCEPT ![q] = Ok(0)]
    /\ UNCHANGED <<board, queues, call,
                   map_log, cclk_emmc_sel, clk_call, probe, hw>>

read_err_retrying(q, err, produced) ==
    /\ InVendor(q, "submit_request", "Read")
    /\ lock' = 0
    /\ vlog' = [vlog EXCEPT ![q] = Produced(q, produced)]
    /\ buf' = [buf EXCEPT ![q] = IF board = "sd" THEN buf[q]
                                 ELSE read_into(q, produced)]
    /\ IF map_error(board, err) = Retry /\ Len(vlog[q]) < 2
       THEN /\ pc' = [pc EXCEPT ![q] = "lock"]
            /\ ret' = ret
       ELSE /\ pc' = [pc EXCEPT ![q] = "done"]
            /\ ret' = [ret EXCEPT ![q] = map_error(board, err)]
    /\ UNCHANGED <<board, queues, call,
                   map_log, cclk_emmc_sel, clk_call, probe, hw>>

\* read_blocks fails: the guard is dropped and the mapped error returned.
\* The SD queue drops its staging Vec; the eMMC vendor may have stored
\* part of the block in the caller's buffer already.
read_err(q, err, produced) ==
    /\ InVendor(q, "submit_request", "Read")
    /\ lock' = 0
    /\ pc' = [pc EXCEPT ![q] = "done"]
    /\ vlog' = [vlog EXCEPT ![q] = Produced(q, produced)]
    /\ buf' = [buf EXCEPT ![q] = IF board = "sd" THEN buf[q]
                                 ELSE read_into(q, produced)]
    /\ ret' = [ret EXCEPT ![q] = map_error(board, err)]
    /\ UNCHANGED <<board, queues, call,
                   map_log, cclk_emmc_sel, clk_call, probe, hw>>

\* write_blocks returns: the guard is dropped; the buffer was only read.
write_ok(q) ==
    /\ InVendor(q, "submit_request", "Write")
    /\ lock' = 0
    /\ pc' = [pc EXCEPT ![q] = "done"]
    /\ ret' = [ret EXCEPT ![q] = Ok(0)]
    /\ UNCHANGED <<board, queues, call, buf, vlog,
                   map_log, cclk_emmc_sel, clk_call, probe, hw>>

write_err_holding(q, err) ==
    /\ InVendor(q, "submit_request", "Write")
    /\ lock' = lock
    /\ pc' = [pc EXCEPT ![q] = "done"]
    /\ ret' = [ret EXCEPT ![q] = map_error(board, err)]
    /\ UNCHANGED <<board, queues, call, buf, vlog,
                   map_log, cclk_emmc_sel, clk_call, probe, hw>>

write_err(q, err) ==
    /\ InVendor(q, "submit_request", "Write")
    /\ lock' = 0
    /\ pc' = [pc EXCEPT ![q] = "done"]
    /\ ret' = [ret EXCEPT ![q] = map_error(board, err)]
    /\ UNCHANGED <<board, queues, call, buf, vlog,
                   map_log, cclk_emmc_sel, clk_call, probe, hw>>

\* block_count / block_size return what the card reports (reported): the
\* guard is dropped and the number returned (buff_config returns it as its
\* size).
query_return(q, reported) ==
    /\ pc[q] = "vendor"
    /\ call[q].op \in QueryOps
    /\ lock' = 0
    /\ pc' = [pc EXCEPT ![q] = "done"]
    /\ vlog' = [vlog EXCEPT ![q] = Produced(q, reported)]
    /\ ret' = [ret EXCEPT ![q] = Ok(reported)]
    /\ UNCHANGED <<board, queues, call, buf,
                   map_log, cclk_emmc_sel, clk_call, probe, hw>>

\* IQueue::poll_request: Ok(()) and nothing else.  The caller's record of
\* its previous call (call, buf, ret, vlog of q) is replaced by this one's.
poll_request_locking(q, id) ==
    /\ Callable(q)
    /\ lock = 0
    /\ call' = [call EXCEPT ![q] = [NoCall EXCEPT !.op = "poll_request", !.rid = id]]
    /\ buf' = [buf EXCEPT ![q] = <<>>]
    /\ vlog' = [vlog EXCEPT ![q] = <<>>]
    /\ ret' = [ret EXCEPT ![q] = Ok(0)]
    /\ pc' = [pc EXCEPT ![q] = "done"]
    /\ UNCHANGED <<board, queues, lock,
                   map_log, cclk_emmc_sel, clk_call, probe, hw>>

poll_request(q, id) ==
    /\ Callable(q)
    /\ call' = [call EXCEPT ![q] = [NoCall EXCEPT !.op = "poll_request", !.rid = id]]
    /\ buf' = [buf EXCEPT ![q] = <<>>]
    /\ vlog' = [vlog EXCEPT ![q] = <<>>]
    /\ ret' = [ret EXCEPT ![q] = Ok(0)]
    /\ pc' = [pc EXCEPT ![q] = "done"]
    /\ UNCHANGED <<board, queues, lock,
                   map_log, cclk_emmc_sel, clk_call, probe, hw>>

(***************************************************************************)
(* The queues in use: a probed and registered device, no queue yet.        *)
(***************************************************************************)
NoClkCall == [op |-> "none", id |-> 0, rate |-> W(0), ret |-> "None",
              val |-> "", wrote |-> FALSE]

Init ==
    /\ board \in Boards
    /\ queues = {}
    /\ lock = 0
    /\ pc = [q \in QueueIds |-> "idle"]
    /\ call = [q \in QueueIds |-> NoCall]
    /\ buf = [q \in QueueIds |-> <<>>]
    /\ ret = [q \in QueueIds |-> NoResult]
    /\ vlog = [q \in QueueIds |-> <<>>]
    /\ map_log = <<>>
    /\ cclk_emmc_sel = "reset"
    /\ clk_call = NoClkCall
    /\ probe = ProbeDone(board)
    /\ hw \in HwGeometries

Next ==
    \/ create_queue
    \/ \E q \in QueueIds : \E r \in RequestsOf(q) : submit_request(q, r)
    \/ \E q \in QueueIds :
         \E op \in QueryOpsOf(q) : query(q, op)
    \/ \E q \in QueueIds : acquire(q)
    \/ \E q \in QueueIds :
         \E n \in (IF board = "sd" THEN { w * U32_SIZE : w \in StagingWords }
                                   ELSE {BLOCK_SIZE}) : read_ok(q, n)
    \/ \E q \in QueueIds : \E e \in ErrorsOf(q) :
         \E n \in (IF board = "sd" THEN {0} ELSE PartialBytes) : read_err(q, e, n)
    \/ \E q \in QueueIds : write_ok(q)
    \/ \E q \in QueueIds : \E e \in ErrorsOf(q) : write_err(q, e)
    \/ \E q \in QueueIds :
         query_return(q, IF call[q].op = "num_blocks" THEN hw.block_count
                                                      ELSE hw.block_size)
    \/ \E q \in QueueIds : \E id \in PollIds : poll_request(q, id)

Spec == Init /\ [][Next]_vars

(***************************************************************************)
(* Callers contending for the device with whole-block requests, under a    *)
(* fair lock and a vendor library whose calls terminate.                   *)
(***************************************************************************)
InitFair ==
    /\ board \in Boards
    /\ queues = {}
    /\ lock = 0
    /\ pc = [q \in QueueIds |-> "idle"]
    /\ call = [q \in QueueIds |-> NoCall]
    /\ buf = [q \in QueueIds |-> <<>>]
    /\ ret = [q \in QueueIds |-> NoResult]
    /\ vlog = [q \in QueueIds |-> <<>>]
    /\ map_log = <<>>
    /\ cclk_emmc_sel = "reset"
    /\ clk_call = NoClkCall
    /\ probe = ProbeDone(board)
    /\ hw = [block_size |-> BLOCK_SIZE, block_count |-> 2^20]

NextFair ==
    \/ create_queue
    \/ \E q \in QueueIds : \E r \in ReferenceRequests : submit_request(q, r)
    \/ \E q \in QueueIds : acquire(q)
    \/ \E q \in QueueIds : read_ok(q, BLOCK_SIZE)
    \/ \E q \in QueueIds : read_err(q, Code("Timeout"), 0)
    \/ \E q \in QueueIds : write_ok(q)
    \/ \E q \in QueueIds : \E e \in ErrorsOf(q) : write_err(q, e)

\* The vendor call of queue q comes back, with whatever outcome.
vendor_returns(q) == NextFair /\ pc[q] = "vendor" /\ pc'[q] = "done"

\* Every vendor call terminates and the lock is handed out fairly: a caller
\* that finds it free again and again gets it.
Fairness ==
    \A q \in QueueIds : SF_vars(acquire(q)) /\ WF_vars(vendor_returns(q))

SpecFair == InitFair /\ [][NextFair]_vars /\ Fairness

(***************************************************************************)
(* The error mapper on its own: a vendor code goes in, a BlkError comes    *)
(* out, and the log keeps both.                                            *)
(***************************************************************************)
map_apply(err) ==
    /\ Len(map_log) < MaxMapCalls
    /\ map_log' = Append(map_log, [err |-> err, out |-> map_error(board, err)])
    /\ UNCHANGED <<board, queues, lock, pc, call, buf, ret, vlog,
                   cclk_emmc_sel, clk_call, probe, hw>>

InitMap ==
    /\ board \in Boards
    /\ queues = {}
    /\ lock = 0
    /\ pc = [q \in QueueIds |-> "idle"]
    /\ call = [q \in QueueIds |-> NoCall]
    /\ buf = [q \in QueueIds |-> <<>>]
    /\ ret = [q \in QueueIds |-> NoResult]
    /\ vlog = [q \in QueueIds |-> <<>>]
    /\ map_log = <<>>
    /\ cclk_emmc_sel = "reset"
    /\ clk_call = NoClkCall
    /\ probe = ProbeDone(board)
    /\ hw = [block_size |-> BLOCK_SIZE, block_count |-> 2^20]

NextMap == \E e \in VendorErrors(board) : map_apply(e)

SpecMap == InitMap /\ [][NextMap]_vars

(***************************************************************************)
(* The clock driver of the RK3568 (clk.rs): the eMMC clock is the one      *)
(* clock it knows.                                                         *)
(***************************************************************************)
Two32 == <<0, 0, 1, 0>>

\* The rates of the table of set_rate, in Hz.
TableHz == { 24 * MHZ, 52 * MHZ, 50 * MHZ, 100 * MHZ, 150 * MHZ, 200 * MHZ,
             400 * KHZ, 375 * KHZ }

\* Rates asked for: the table, 33 MHz, 0, two table rates plus 2^32, and
\* the largest u64.
ClkRates ==
    { W(hz) : hz \in TableHz }
    \cup { W(33 * MHZ), W(0), MaxWord,
           AddWord(Two32, W(24 * MHZ)).val, AddWord(Two32, W(400 * KHZ)).val }

ClockIds == {EMMC_CLK_ID, EMMC_CLK_ID + 1}

src_clk_merged_arms(r) ==
    CASE r = U32(24 * MHZ) -> "XIN_SOC0_MUX"
      [] r = U32(52 * MHZ) \/ r = U32(50 * MHZ) -> "CPL_DIV_50M"
      [] r = U32(100 * MHZ) \/ r = U32(150 * MHZ) -> "CPL_DIV_100M"
      [] r = U32(200 * MHZ) -> "GPL_DIV_200M"
      [] r = U32(400 * KHZ) \/ r = U32(375 * KHZ) -> "SOC0_375K"
      [] OTHER -> "none"

\* The match on `rate as u32`; "none" is the arm that panics.
src_clk(r) ==
    CASE r = U32(24 * MHZ) -> "XIN_SOC0_MUX"
      [] r = U32(52 * MHZ) \/ r = U32(50 * MHZ) -> "CPL_DIV_50M"
      [] r = U32(100 * MHZ) -> "CPL_DIV_100M"
      [] r = U32(150 * MHZ) -> "GPL_DIV_150M"
      [] r = U32(200 * MHZ) -> "GPL_DIV_200M"
      [] r = U32(400 * KHZ) \/ r = U32(375 * KHZ) -> "SOC0_375K"
      [] OTHER -> "none"

ClkPanicked == clk_call.ret = "Panic"

\* Interface::set_rate.  wrote: whether cru_clksel_set_cclk_emmc ran.
set_rate(id, rate) ==
    /\ ~ClkPanicked
    /\ IF id # EMMC_CLK_ID
       THEN /\ clk_call' = [op |-> "set_rate", id |-> id, rate |-> rate,
                            ret |-> "InvalidArg", val |-> "", wrote |-> FALSE]
            /\ UNCHANGED cclk_emmc_sel
       ELSE IF src_clk(as_u32(rate)) = "none"
       THEN /\ clk_call' = [op |-> "set_rate", id |-> id, rate |-> rate,
                            ret |-> "Panic", val |-> "", wrote |-> FALSE]
            /\ UNCHANGED cclk_emmc_sel
       ELSE /\ clk_call' = [op |-> "set_rate", id |-> id, rate |-> rate,
                            ret |-> "Ok", val |-> "", wrote |-> TRUE]
            /\ cclk_emmc_sel' = src_clk(as_u32(rate))
    /\ UNCHANGED <<board, queues, lock, pc, call, buf, ret, vlog,
                   map_log, probe, hw>>

\* Interface::get_rate: the selector field of the register, not a rate in Hz.
get_rate(id) ==
    /\ ~ClkPanicked
    /\ clk_call' = [op |-> "get_rate", id |-> id, rate |-> W(0),
                    ret |-> IF id = EMMC_CLK_ID THEN "Ok" ELSE "InvalidArg",
                    val |-> IF id = EMMC_CLK_ID THEN cclk_emmc_sel ELSE "",
                    wrote |-> FALSE]
    /\ UNCHANGED <<board, queues, lock, pc, call, buf, ret, vlog,
                   map_log, cclk_emmc_sel, probe, hw>>

InitClk ==
    /\ board = "emmc"
    /\ queues = {}
    /\ lock = 0
    /\ pc = [q \in QueueIds |-> "idle"]
    /\ call = [q \in QueueIds |-> NoCall]
    /\ buf = [q \in QueueIds |-> <<>>]
    /\ ret = [q \in QueueIds |-> NoResult]
    /\ vlog = [q \in QueueIds |-> <<>>]
    /\ map_log = <<>>
    /\ cclk_emmc_sel = "reset"
    /\ clk_call = NoClkCall
    /\ probe = ProbeDone(board)
    /\ hw = [block_size |-> BLOCK_SIZE, block_count |-> 2^20]

NextClk ==
    \/ \E id \in ClockIds : \E rate \in ClkRates : set_rate(id, rate)
    \/ \E id \in ClockIds : get_rate(id)

SpecClk == InitClk /\ [][NextClk]_vars

(***************************************************************************)
(* The probes: probe_cru registers the clock controller, then probe_mmc    *)
(* (ROC-RK3568-PC) or probe_sdcard (Phytium Pi) maps the controller's      *)
(* registers and registers the block device.  probe_mmc installs the clock *)
(* bridge and runs the host's init() in between; init() is vendor code     *)
(* that asks the bridge for the rates it wants.  A panic halts the kernel. *)
(***************************************************************************)
CORE_CLK_INDEX == 124

NotProbed(b) ==
    [pc |-> "unprobed", ret |-> "None", registered |-> FALSE,
     clk_bridge |-> FALSE, init |-> "none",
     cru |-> IF b = "emmc" THEN "unprobed" ELSE "none",
     failure |-> "none"]

Halted == probe.pc = "panicked" \/ probe.cru = "panicked" \/ ClkPanicked

\* Rates the host's init() asks for: two of the table, 33 MHz, and 400 KHz
\* plus 2^32.
ProbeRates ==
    { W(400 * KHZ), W(200 * MHZ), W(33 * MHZ), AddWord(Two32, W(400 * KHZ)).val }

\* probe_cru: no reg entry is an Err, a failed iomap a panic; it runs before
\* the storage probe (ProbePriority::CLK).
probe_cru(outcome) ==
    /\ ~Halted
    /\ board = "emmc"
    /\ probe.cru = "unprobed"
    /\ probe.pc = "unprobed"
    /\ probe' = [probe EXCEPT !.cru = CASE outcome = "ok" -> "registered"
                                        [] outcome = "noreg" -> "failed"
                                        [] OTHER -> "panicked"]
    /\ UNCHANGED <<board, queues, lock, pc, call, buf, ret, vlog,
                   map_log, cclk_emmc_sel, clk_call, hw>>

\* probe_mmc / probe_sdcard: the reg entry of the node; none is an Err.
probe_reg(found) ==
    /\ ~Halted
    /\ probe.pc = "unprobed"
    /\ probe.cru # "unprobed"
    /\ probe' = IF found
                THEN [probe EXCEPT !.pc = "reg"]
                ELSE [probe EXCEPT !.pc = "returned", !.ret = "Err",
                                   !.failure = "noreg"]
    /\ UNCHANGED <<board, queues, lock, pc, call, buf, ret, vlog,
                   map_log, cclk_emmc_sel, clk_call, hw>>

\* iomap(..).expect(..): a failed mapping panics.
probe_iomap(ok) ==
    /\ ~Halted
    /\ probe.pc = "reg"
    /\ probe' = IF ok
                THEN [probe EXCEPT !.pc = "mapped"]
                ELSE [probe EXCEPT !.pc = "panicked", !.failure = "iomap"]
    /\ UNCHANGED <<board, queues, lock, pc, call, buf, ret, vlog,
                   map_log, cclk_emmc_sel, clk_call, hw>>

probe_init_clk_after_register ==
    /\ ~Halted
    /\ board = "emmc"
    /\ probe.pc = "mapped"
    /\ probe' = [probe EXCEPT !.pc = "init", !.clk_bridge = TRUE,
                              !.registered = TRUE]
    /\ UNCHANGED <<board, queues, lock, pc, call, buf, ret, vlog,
                   map_log, cclk_emmc_sel, clk_call, hw>>

\* `let _ = init_clk(0x7c)`: the bridge becomes the global clock of the
\* vendor library; EMmcHost::new follows and init() starts.
probe_init_clk ==
    /\ ~Halted
    /\ board = "emmc"
    /\ probe.pc = "mapped"
    /\ probe' = [probe EXCEPT !.pc = "init", !.clk_bridge = TRUE]
    /\ UNCHANGED <<board, queues, lock, pc, call, buf, ret, vlog,
                   map_log, cclk_emmc_sel, clk_call, hw>>

\* EmmcClk::emmc_set_clk, called by init(): get_one::<ClkDriver>().unwrap()
\* panics without a clock controller, set_rate(..).unwrap() hands the rate on.
emmc_set_clk(rate) ==
    /\ ~Halted
    /\ probe.pc = "init"
    /\ probe.clk_bridge
    /\ IF probe.cru = "registered"
       THEN set_rate(CORE_CLK_INDEX, rate)
       ELSE /\ probe' = [probe EXCEPT !.pc = "panicked", !.failure = "no_clk_dev"]
            /\ UNCHANGED <<board, queues, lock, pc, call, buf, ret, vlog,
                           map_log, cclk_emmc_sel, clk_call, hw>>

host_init_strict(ok) ==
    /\ ~Halted
    /\ probe.pc = "init"
    /\ probe' = IF ok
                THEN [probe EXCEPT !.pc = "inited", !.init = "ok"]
                ELSE [probe EXCEPT !.pc = "returned", !.ret = "Err",
                                   !.init = "failed", !.failure = "init"]
    /\ UNCHANGED <<board, queues, lock, pc, call, buf, ret, vlog,
                   map_log, cclk_emmc_sel, clk_call, hw>>

\* emmc.init() returns: a failure is logged with warn! and nothing else.
host_init(ok) ==
    /\ ~Halted
    /\ probe.pc = "init"
    /\ probe' = IF ok
                THEN [probe EXCEPT !.pc = "inited", !.init = "ok"]
                ELSE [probe EXCEPT !.pc = "inited", !.init = "failed",
                                   !.failure = "init"]
    /\ UNCHANGED <<board, queues, lock, pc, call, buf, ret, vlog,
                   map_log, cclk_emmc_sel, clk_call, hw>>

\* plat_dev.register(Block::new(driver)); Ok(()).
probe_register ==
    /\ ~Halted
    /\ probe.pc = IF board = "emmc" THEN "inited" ELSE "mapped"
    /\ probe' = [probe EXCEPT !.pc = "returned", !.ret = "Ok",
                              !.registered = TRUE]
    /\ UNCHANGED <<board, queues, lock, pc, call, buf, ret, vlog,
                   map_log, cclk_emmc_sel, clk_call, hw>>

InitProbe ==
    /\ board \in Boards
    /\ queues = {}
    /\ lock = 0
    /\ pc = [q \in QueueIds |-> "idle"]
    /\ call = [q \in QueueIds |-> NoCall]
    /\ buf = [q \in QueueIds |-> <<>>]
    /\ ret = [q \in QueueIds |-> NoResult]
    /\ vlog = [q \in QueueIds |-> <<>>]
    /\ map_log = <<>>
    /\ cclk_emmc_sel = "reset"
    /\ clk_call = NoClkCall
    /\ probe = NotProbed(board)
    /\ hw = [block_size |-> BLOCK_SIZE, block_count |-> 2^20]

\* The probes, then the queues of the registered device at work.
NextProbe ==
    \/ \E outcome \in {"ok", "noreg", "iomap"} : probe_cru(outcome)
    \/ \E found \in BOOLEAN : probe_reg(found)
    \/ \E ok \in BOOLEAN : probe_iomap(ok)
    \/ probe_init_clk
    \/ \E rate \in ProbeRates : emmc_set_clk(rate)
    \/ \E ok \in BOOLEAN : host_init(ok)
    \/ probe_register
    \/ create_queue
    \/ \E q \in QueueIds : \E r \in ReferenceRequests : submit_request(q, r)
    \/ \E q \in QueueIds : acquire(q)
    \/ \E q \in QueueIds : read_ok(q, BLOCK_SIZE)
    \/ \E q \in QueueIds : write_ok(q)

SpecProbe == InitProbe /\ [][NextProbe]_vars

(***************************************************************************)
(* Properties.                                                             *)
(***************************************************************************)
\* A submit_request of queue q, in progress or returned.
Submitted(q) == call[q].op = "submit_request"

\* A submit_request of queue q that has returned.
Returned(q) == Submitted(q) /\ pc[q] = "done"

\* q's call has reached the vendor driver, or is about to.
ReachesVendor(q) == pc[q] \in {"lock", "vendor"} \/ vlog[q] # <<>>

Misaligned(c) == c.addr % 4 # 0 \/ (c.addr + c.len) % 4 # 0

\* C1: a Read or Write request whose buffer is shorter than 512 bytes never
\* reaches read_blocks / write_blocks: submit_request returns at once, with
\* Other(InvalidSize { expected: 512, actual: len }).
C1_ShortBufferRejected ==
    \A q \in QueueIds :
        (Submitted(q) /\ call[q].len < 512) =>
            /\ ~ReachesVendor(q)
            /\ pc[q] = "done"
            /\ ret[q] = Other(InvalidSize(512, call[q].len))

C1_Witness ==
    \E q \in QueueIds :
        /\ Returned(q)
        /\ call[q].kind = "Write"
        /\ call[q].len = 508
        /\ ret[q].kind = "Other"
        /\ ret[q].err.type = "InvalidSize"
        /\ ret[q].err.actual = 508

\* C2 as claimed: a request whose buffer starts or ends off a 4-byte
\* boundary never reaches the vendor and returns Other(InvalidAlignment).
C2_Claimed ==
    \A q \in QueueIds :
        (Submitted(q) /\ Misaligned(call[q])) =>
            /\ ~ReachesVendor(q)
            /\ pc[q] = "done"
            /\ ret[q] = Other(InvalidAlignment)

\* C2 as amended: a request whose buffer holds at least 512 bytes and
\* starts or ends off a 4-byte boundary never reaches the vendor and returns
\* Other(InvalidAlignment); a shorter one returns the size error instead.
C2_MisalignedRejected ==
    \A q \in QueueIds :
        (Submitted(q) /\ Misaligned(call[q])) =>
            /\ ~ReachesVendor(q)
            /\ pc[q] = "done"
            /\ ret[q] = IF call[q].len >= 512
                        THEN Other(InvalidAlignment)
                        ELSE Other(InvalidSize(512, call[q].len))

C2_Witness ==
    \E q \in QueueIds :
        /\ Returned(q)
        /\ call[q].kind = "Read"
        /\ call[q].addr % 4 = 0
        /\ call[q].len = 514
        /\ ret[q] = Other(InvalidAlignment)

\* The blocks of the reserved region, as the claim gives them.
ClaimedOffset == IF board = "sd" THEN W(131072) ELSE W(499712)

\* C3 as claimed: the start block handed to read_blocks / write_blocks is
\* block_id + RESERVED_OFFSET, for every block_id a usize holds: the sum
\* neither wraps nor loses bits on its way to the vendor's u32.
C3_Claimed ==
    \A q \in QueueIds :
        (Submitted(q) /\ vlog[q] # <<>>) =>
            LET sum == AddWord(call[q].block_id, ClaimedOffset)
            IN  /\ sum.carry = 0
                /\ widen(vlog[q][1].start) = sum.val

\* C4: at most one vendor transfer or query runs against the device handle
\* at a time, and it is the lock holder's.
C4_OneAtATime ==
    /\ Cardinality({ q \in QueueIds : pc[q] = "vendor" }) <= 1
    /\ \A q \in QueueIds : pc[q] = "vendor" => (lock = q /\ q \in queues)

C4_Witness ==
    \E p, q \in QueueIds :
        /\ pc[p] = "vendor" /\ Submitted(p)
        /\ pc[q] = "lock" /\ call[q].op \in QueryOps

\* C5 as claimed: on both boards timeout and transient transfer-failure
\* codes map to Retry, and card-detection, card-initialisation, voltage and
\* unsupported-card codes map to NotSupported.
RetryClass ==
    { "Timeout", "DataTimeout", "TransferFailed", "StopTransmissionFailed",
      "WaitWriteCompleteFailed" }

NotSupportedClass ==
    { "CardDetectFailed", "CardInitFailed", "InvalidVoltage", "SwitchVoltageFail",
      "SwitchVoltage18VFail33VSuccess", "VoltageSwitchFailed", "UnsupportedCard" }

C5_Claimed ==
    \A i \in DOMAIN map_log :
        /\ map_log[i].err.name \in RetryClass => map_log[i].out = Retry
        /\ map_log[i].err.name \in NotSupportedClass => map_log[i].out = NotSupported

C7_OtherKeepsCode ==
    /\ \A i \in DOMAIN map_log :
           map_log[i].out.kind = "Other" =>
               /\ map_log[i].out.err.code = map_log[i].err
               /\ map_log[i].out.err.type \in {"MCIErrorWrapper", "SdErrorWrapper"}
    /\ \A i, j \in DOMAIN map_log :
           ( /\ map_log[i].out.kind = "Other"
             /\ map_log[j].out.kind = "Other"
             /\ map_log[i].err # map_log[j].err ) => map_log[i].out # map_log[j].out

C7_Witness ==
    \E i, j \in DOMAIN map_log :
        /\ map_log[i].err = [name |-> "CardError", arg |-> 1]
        /\ map_log[j].err = [name |-> "CardError", arg |-> 2]
        /\ map_log[i].out.kind = "Other"
        /\ map_log[j].out.kind = "Other"

\* A step in which queue q's poll_request returns.
PollReturns(q) ==
    /\ call'[q].op = "poll_request"
    /\ <<pc[q], call[q], ret[q], vlog[q], buf[q]>>
         # <<pc'[q], call'[q], ret'[q], vlog'[q], buf'[q]>>

\* C8: poll_request can return for every id whenever its queue's caller is
\* free to call, also while another queue holds the device; it returns
\* Ok(()), makes no vendor call, and leaves the lock, the set of queues and
\* every other queue's call as they were.
C8_PollIsNoOp ==
    /\ [](\A q \in QueueIds : \A id \in PollIds :
             Callable(q) => ENABLED poll_request(q, id))
    /\ [][\A q \in QueueIds :
             PollReturns(q) =>
                 /\ ret'[q] = Ok(0)
                 /\ pc'[q] = "done"
                 /\ vlog'[q] = <<>>
                 /\ lock' = lock
                 /\ queues' = queues
                 /\ \A p \in QueueIds \ {q} :
                        <<pc'[p], call'[p], ret'[p], vlog'[p], buf'[p]>>
                          = <<pc[p], call[p], ret[p], vlog[p], buf[p]>>]_vars

C8_Witness ==
    \E p, q \in QueueIds :
        /\ pc[p] = "vendor" /\ lock = p
        /\ pc[q] = "done"
        /\ call[q].op = "poll_request"
        /\ call[q].rid = 7
        /\ ret[q] = Ok(0)

\* C9: after a Read that returned Ok, read_blocks ran once, with count 1 and
\* the translated block, and the caller's buffer holds the block's data in
\* its first min(staging length, buffer length) bytes and its old contents
\* in the rest.
C9_ReadResult ==
    \A q \in QueueIds :
        (Returned(q) /\ call[q].kind = "Read" /\ ret[q].kind = "Ok") =>
            /\ Len(vlog[q]) = 1
            /\ vlog[q][1].fn = "read_blocks"
            /\ vlog[q][1].count = 1
            /\ vlog[q][1].start = start_block(board, call[q].block_id)
            /\ LET n == Min(vlog[q][1].produced, call[q].len)
               IN  buf[q] = Norm(Fill(n, DeviceData(vlog[q][1].start))
                                 \o Fill(call[q].len - n, CallerData))

C9_Witness ==
    \E q \in QueueIds :
        /\ Returned(q) /\ call[q].kind = "Read" /\ ret[q] = Ok(0)
        /\ call[q].block_id = W(10)
        /\ call[q].len = 1024
        /\ vlog[q][1].produced = 512
        /\ buf[q] = <<[n |-> 512, v |-> DeviceData(vlog[q][1].start)],
                      [n |-> 512, v |-> CallerData]>>

\* The supported rates, as the claim gives them.
ClaimedTable == { 24000000, 50000000, 52000000, 100000000, 150000000,
                  200000000, 375000, 400000 }

\* C10 as claimed: set_rate of the eMMC clock with a 64-bit rate that is not
\* in the table does not return Ok and writes no selector.
C10_Claimed ==
    ( /\ clk_call.op = "set_rate"
      /\ clk_call.id = 124
      /\ clk_call.rate \notin { W(hz) : hz \in ClaimedTable } )
    => (clk_call.ret # "Ok" /\ ~clk_call.wrote)

\* The selector each supported rate is to get.
ClaimedSelector(hz) ==
    CASE hz = 24000000 -> "XIN_SOC0_MUX"
      [] hz \in {50000000, 52000000} -> "CPL_DIV_50M"
      [] hz = 100000000 -> "CPL_DIV_100M"
      [] hz = 150000000 -> "GPL_DIV_150M"
      [] hz = 200000000 -> "GPL_DIV_200M"
      [] hz \in {375000, 400000} -> "SOC0_375K"

\* C11: set_rate of the eMMC clock with a rate of the table returns Ok and
\* leaves the selector of that rate, and no other, in the clock controller.
C11_TableRateSelects ==
    \A hz \in ClaimedTable :
        ( /\ clk_call.op = "set_rate"
          /\ clk_call.id = 124
          /\ clk_call.rate = W(hz) )
        => /\ clk_call.ret = "Ok"
           /\ clk_call.wrote
           /\ cclk_emmc_sel = ClaimedSelector(hz)

C11_Witness ==
    /\ clk_call.op = "set_rate"
    /\ clk_call.rate = W(150000000)
    /\ clk_call.ret = "Ok"
    /\ cclk_emmc_sel = "GPL_DIV_150M"

\* C12 as claimed: once the host's init() has asked, during the eMMC probe,
\* for a rate that is not in the table, the block device is never registered
\* and no queue adapter of it exists.
C12_Claimed ==
    ( /\ clk_call.op = "set_rate"
      /\ clk_call.rate \notin { W(hz) : hz \in ClaimedTable } )
    => (~probe.registered /\ queues = {})

\* C13: when init() reports a failure the probe goes on: the device is
\* registered, the probe returns Ok and a queue can be created.
C13_InitFailedStillRegistered ==
    /\ (probe.init = "failed" /\ probe.pc = "inited") => ENABLED probe_register
    /\ (probe.init = "failed" /\ probe.pc = "returned") =>
           /\ probe.registered
           /\ probe.ret = "Ok"
           /\ Cardinality(queues) < MaxQueues => ENABLED create_queue

C13_Witness ==
    /\ probe.init = "failed"
    /\ probe.pc = "returned"
    /\ probe.registered
    /\ \E q \in queues : Returned(q)

\* A failure of the storage device's probe: no reg entry, a failed mapping,
\* an unsupported rate, no clock controller to ask, a failed init().
ProbeFailed == probe.failure # "none" \/ ClkPanicked

\* C14 as claimed: after any failure of its probe the storage device is not
\* registered, and neither that failure nor one of the clock controller's
\* probe halts the platform.
C14_Claimed ==
    /\ ProbeFailed => ~probe.registered
    /\ (ProbeFailed \/ probe.cru \in {"failed", "panicked"}) => ~Halted

ValidBuffer(c) == c.len >= 512 /\ ~Misaligned(c)

\* C16: a submit_request makes at most one vendor call: one when its buffer
\* is valid, none otherwise, also when the call failed with Retry.
C16_SingleAttempt ==
    \A q \in QueueIds :
        Submitted(q) =>
            /\ Len(vlog[q]) <= 1
            /\ \A i \in DOMAIN vlog[q] :
                   vlog[q][i].fn \in {"read_blocks", "write_blocks"}
            /\ pc[q] = "done" =>
                   Len(vlog[q]) = IF ValidBuffer(call[q]) THEN 1 ELSE 0
            /\ (pc[q] = "done" /\ ~ValidBuffer(call[q])) => ret[q].kind = "Other"

C16_Witness ==
    \E q \in QueueIds :
        /\ Returned(q)
        /\ call[q].kind = "Read"
        /\ ret[q] = Retry
        /\ Len(vlog[q]) = 1

\* C17 as claimed: a Read that returned an error left the caller's buffer
\* as it was at submission.
C17_Claimed ==
    \A q \in QueueIds :
        (Returned(q) /\ call[q].kind = "Read" /\ ret[q].kind # "Ok") =>
            buf[q] = Fill(call[q].len, CallerData)

\* C18: a caller waiting for the lock leaves the wait only by getting the
\* free lock, with nothing returned to it; a vendor call ends only in a
\* return that frees the lock; and a waiting submit_request eventually
\* returns, with its one vendor call made.
C18_WaitsThenRuns ==
    /\ [][\A q \in QueueIds :
             (pc[q] = "lock" /\ pc'[q] # "lock") =>
                 /\ lock = 0 /\ lock' = q
                 /\ pc'[q] = "vendor"
                 /\ ret'[q] = NoResult]_vars
    /\ [][\A q \in QueueIds :
             (pc[q] = "vendor" /\ pc'[q] # "vendor") =>
                 (pc'[q] = "done" /\ lock = q /\ lock' = 0)]_vars
    /\ \A q \in QueueIds :
           (Submitted(q) /\ pc[q] = "lock" /\ lock \notin {0, q})
               ~> (Returned(q) /\ Len(vlog[q]) = 1)

C18_Witness ==
    \E p, q \in QueueIds :
        /\ p # q
        /\ Submitted(p) /\ pc[p] = "vendor" /\ lock = p
        /\ Submitted(q) /\ pc[q] = "lock"

\* C19: a Write with a valid buffer hands write_blocks, once, with count 1
\* and the translated block, the bytes the buffer held at submission; the
\* buffer holds them still, whatever the outcome; success is RequestId 0
\* with the device released.
C19_WriteFrame ==
    \A q \in QueueIds :
        (Submitted(q) /\ call[q].kind = "Write") =>
            /\ buf[q] = Fill(call[q].len, CallerData)
            /\ vlog[q] # <<>> =>
                   /\ Len(vlog[q]) = 1
                   /\ vlog[q][1].fn = "write_blocks"
                   /\ vlog[q][1].count = 1
                   /\ vlog[q][1].start = start_block(board, call[q].block_id)
                   /\ vlog[q][1].data = Fill(call[q].len, CallerData)
            /\ (pc[q] = "done" /\ ret[q].kind = "Ok") =>
                   (ret[q] = Ok(0) /\ lock # q /\ Len(vlog[q]) = 1)

C19_Witness ==
    \E q \in QueueIds :
        /\ Returned(q) /\ call[q].kind = "Write"
        /\ call[q].len = 1024
        /\ ret[q] = Ok(0)
        /\ vlog[q][1].data = <<[n |-> 1024, v |-> CallerData]>>

\* C20 as claimed: a buffer that passed validation is at least as long as
\* the block size the card reports, which is what block_size() and
\* buff_config().size return.
C20_Claimed ==
    \A q \in QueueIds :
        (Submitted(q) /\ ReachesVendor(q)) => call[q].len >= hw.block_size

====
